---- MODULE Spec2Model ----
(***************************************************************************)
(* A model of the browser stress-test harness: the event dispatcher        *)
(* (EventHandler), the critical-endpoint monitor (CustomEventHandler),     *)
(* the session runner (Runner.run with Scenario.execute) and the launcher  *)
(* (the main function of index.ts).                                        *)
(*                                                                         *)
(* Every session i owns one monitor record mon[i] and one runner record    *)
(* run[i]; the launcher owns main.  The set of sessions of a behaviour is  *)
(* DOMAIN run.                                                             *)
(***************************************************************************)
EXTENDS Integers, Sequences, FiniteSets, TLC

VARIABLES
    mon,    \* mon[i]: the fields of session i's CustomEventHandler
    hist,   \* hist[i]: history of the events delivered to session i's monitor
    run,    \* run[i]: the position and fields of session i's Runner.run
    main    \* the launcher: its position, the browser handle, the promises

vars == <<mon, hist, run, main>>

------------------------------------------------------------------------------
(* Bounds of the model *)

\* events (console, request and response) delivered to the monitors in a run
MaxEvents == 3
\* sessions launched together in the launcher specification
NumSessions == 3
\* responses delivered to the monitor in the critical-endpoint specification
MaxObserved == 6

------------------------------------------------------------------------------
(* URLs, responses, bodies *)

\* A URL is a sequence of tokens; its text is their concatenation.  Each
\* critical endpoint name is one token, so url.endsWith(name) is "the last
\* token is name".
EndsWith(url, suffix) == Len(url) > 0 /\ url[Len(url)] = suffix

criticalEndpoints ==
    << "/getStore", "/getToken", "/getOrderTypeData", "/getDataAuthStore", "/health" >>

\* Array.prototype.some over criticalEndpoints
IsCriticalEndpoint(url) ==
    \E i \in 1..Len(criticalEndpoints) : EndsWith(url, criticalEndpoints[i])

\* Array.prototype.find over criticalEndpoints: the first match in list order,
\* "undefined" when there is none
FindEndpoint(url) ==
    LET hits == { i \in 1..Len(criticalEndpoints) : EndsWith(url, criticalEndpoints[i]) }
    IN  IF hits = {} THEN "undefined"
        ELSE criticalEndpoints[CHOOSE i \in hits : \A j \in hits : i <= j]

\* What response.json() does with a body text: it rejects on text that is not
\* JSON, otherwise it resolves to the parsed value.
JsonParses(body) == body # "not-json"

\* Evaluating `responseBody.error === true` on the parsed value: reading a
\* property of null throws a TypeError; on an object it compares the field.
ErrorFieldThrows(body) == body = "null"
ErrorFieldIsTrue(body) == body = "{error:true}"

------------------------------------------------------------------------------
(* CustomEventHandler: the fields of one monitor *)

\* Map.prototype.set
MapSet(map, key, value) ==
    [ k \in (DOMAIN map) \cup {key} |-> IF k = key THEN value ELSE map[k] ]

\* The state after construction.  criticalEndpointResponses is the Map, a
\* function whose domain is the set of keys stored so far.  pendingJson lists
\* the calls of checkCriticalEndpoint suspended at `await response.json()`, in
\* the order they were made.  hookCalls is instrumentation: the hooks invoked
\* by the handler call in progress, in call order.
NewMonitor ==
    [ errorCount                |-> 0,
      requestCount              |-> 0,
      serverErrorCount          |-> 0,
      criticalEndpointFailed    |-> FALSE,
      criticalEndpointResponses |-> << >>,
      healthCheckPassed         |-> FALSE,
      pendingJson               |-> << >>,
      hookCalls                 |-> << >> ]

Called(m, hook) == [ m EXCEPT !.hookCalls = Append(@, hook) ]

\* The stored observations ({url, timestamp, status, body | error}); the
\* timestamp is wall-clock time and is left out.
HealthOkObservation(response) ==
    [ url |-> response.url, status |-> response.status, body |-> "OK (200)" ]

HealthErrorObservation(response) ==
    [ url |-> response.url, status |-> response.status,
      error |-> [ text |-> "HTTP", status |-> response.status ] ]

BodyObservation(call) ==
    [ url |-> call.url, status |-> call.status, body |-> call.body ]

ParseErrorObservation(call, cause) ==
    [ url |-> call.url, status |-> call.status,
      error |-> [ text |-> "Failed to parse JSON response", cause |-> cause ] ]

onConsoleError(m, text) ==
    [ Called(m, "onConsoleError") EXCEPT !.errorCount = @ + 1 ]

onConsoleWarning(m, text) == Called(m, "onConsoleWarning")

onConsoleLog(m, text) == Called(m, "onConsoleLog")

onRequest(m, request) ==
    [ Called(m, "onRequest") EXCEPT !.requestCount = @ + 1 ]

onServerError(m, response) ==
    [ Called(m, "onServerError") EXCEPT !.serverErrorCount = @ + 1 ]

onClientError(m, response) == Called(m, "onClientError")

\* checkHealth with the status test widened to the whole success band
checkHealth_anySuccess(m, response) ==
    [ m EXCEPT
        !.healthCheckPassed = TRUE,
        !.criticalEndpointResponses =
            MapSet(@, "/health", HealthOkObservation(response)) ]

\* The /health branch of checkCriticalEndpoint: it runs to its return without
\* an await, so it is part of the handler call that delivered the response.
checkHealth(m, response) ==
    IF response.status = 200
    THEN [ m EXCEPT
             !.healthCheckPassed = TRUE,
             !.criticalEndpointResponses =
                 MapSet(@, "/health", HealthOkObservation(response)) ]
    ELSE [ m EXCEPT
             !.criticalEndpointFailed = TRUE,
             !.criticalEndpointResponses =
                 MapSet(@, "/health", HealthErrorObservation(response)) ]

\* checkCriticalEndpoint storing under the first part of the url instead of
\* the endpoint name
checkCriticalEndpoint_keyedByUrl(m, response) ==
    LET endpointName == FindEndpoint(response.url) IN
    IF endpointName = "undefined" THEN m
    ELSE IF endpointName = "/health" THEN checkHealth(m, response)
    ELSE [ m EXCEPT !.pendingJson =
             Append(@, [ endpointName |-> response.url[1],
                         url          |-> response.url,
                         status       |-> response.status,
                         body         |-> response.body ]) ]

\* checkCriticalEndpoint up to its first await: the other endpoints call
\* response.json() and suspend.
checkCriticalEndpoint(m, response) ==
    LET endpointName == FindEndpoint(response.url) IN
    IF endpointName = "undefined" THEN m
    ELSE IF endpointName = "/health" THEN checkHealth(m, response)
    ELSE [ m EXCEPT !.pendingJson =
             Append(@, [ endpointName |-> endpointName,
                         url          |-> response.url,
                         status       |-> response.status,
                         body         |-> response.body ]) ]

\* jsonSettled with a catch block that stores the error and leaves the flag
jsonSettled_silentCatch(m, call) ==
    IF ~JsonParses(call.body) \/ ErrorFieldThrows(call.body)
    THEN [ m EXCEPT
             !.criticalEndpointResponses =
                 MapSet(@, call.endpointName, ParseErrorObservation(call, "SyntaxError")) ]
    ELSE [ m EXCEPT
             !.criticalEndpointFailed = @ \/ ErrorFieldIsTrue(call.body),
             !.criticalEndpointResponses =
                 MapSet(@, call.endpointName, BodyObservation(call)) ]

\* jsonSettled with the flag assigned from the body instead of only set
jsonSettled_assigns(m, call) ==
    IF ~JsonParses(call.body) \/ ErrorFieldThrows(call.body)
    THEN [ m EXCEPT
             !.criticalEndpointFailed = TRUE,
             !.criticalEndpointResponses =
                 MapSet(@, call.endpointName, ParseErrorObservation(call, "SyntaxError")) ]
    ELSE [ m EXCEPT
             !.criticalEndpointFailed = ErrorFieldIsTrue(call.body),
             !.criticalEndpointResponses =
                 MapSet(@, call.endpointName, BodyObservation(call)) ]

\* checkCriticalEndpoint from the await on, for the suspended call `call`:
\* json() resolved (the try block) or rejected (the catch block).  The try
\* block stores the observation before it reads responseBody.error, so a
\* TypeError thrown by that read reaches the catch after the store.
jsonSettled(m, call) ==
    IF ~JsonParses(call.body)
    THEN [ m EXCEPT
             !.criticalEndpointFailed = TRUE,
             !.criticalEndpointResponses =
                 MapSet(@, call.endpointName, ParseErrorObservation(call, "SyntaxError")) ]
    ELSE IF ErrorFieldThrows(call.body)
    THEN [ m EXCEPT
             !.criticalEndpointFailed = TRUE,
             !.criticalEndpointResponses =
                 MapSet(@, call.endpointName, ParseErrorObservation(call, "TypeError")) ]
    ELSE IF ErrorFieldIsTrue(call.body)
    THEN [ m EXCEPT
             !.criticalEndpointFailed = TRUE,
             !.criticalEndpointResponses =
                 MapSet(@, call.endpointName, BodyObservation(call)) ]
    ELSE [ m EXCEPT
             !.criticalEndpointResponses =
                 MapSet(@, call.endpointName, BodyObservation(call)) ]

onSuccess(m, response) ==
    IF IsCriticalEndpoint(response.url)
    THEN checkCriticalEndpoint(Called(m, "onSuccess"), response)
    ELSE Called(m, "onSuccess")

------------------------------------------------------------------------------
(* EventHandler: the dispatcher's three entry points *)

Entered(m) == [ m EXCEPT !.hookCalls = << >> ]

handleConsole(m, msg) ==
    IF msg.type = "error" THEN onConsoleError(Entered(m), msg.text)
    ELSE IF msg.type = "warning" THEN onConsoleWarning(Entered(m), msg.text)
    ELSE IF msg.type = "log" THEN onConsoleLog(Entered(m), msg.text)
    ELSE Entered(m)

\* handleRequest with the hook called for network traffic only
handleRequest_networkOnly(m, request) ==
    IF request.resourceType \in {"xhr", "fetch"}
    THEN onRequest(Entered(m), request)
    ELSE Entered(m)

\* The logging of xhr and fetch requests changes nothing of the monitor; the
\* hook is called for every request.
handleRequest(m, request) == onRequest(Entered(m), request)

\* handleResponse with three separate tests instead of one else-if chain
handleResponse_separateIfs(m, response) ==
    LET m1 == IF response.status >= 500 THEN onServerError(Entered(m), response)
              ELSE Entered(m)
        m2 == IF response.status >= 400 THEN onClientError(m1, response) ELSE m1
    IN  IF response.status >= 200 /\ response.status < 300
        THEN onSuccess(m2, response) ELSE m2

handleResponse(m, response) ==
    IF response.status >= 500 THEN onServerError(Entered(m), response)
    ELSE IF response.status >= 400 THEN onClientError(Entered(m), response)
    ELSE IF response.status >= 200 /\ response.status < 300
    THEN onSuccess(Entered(m), response)
    ELSE Entered(m)

\* The queries
hasCriticalFailure(m) == m.criticalEndpointFailed
hasHealthCheckPassed(m) == m.healthCheckPassed
getEndpointResponse(m, endpointName) ==
    IF endpointName \in DOMAIN m.criticalEndpointResponses
    THEN m.criticalEndpointResponses[endpointName]
    ELSE "undefined"
\* Map.prototype.forEach with the callback `obj[key] = value`, over the keys
\* not yet visited
RECURSIVE forEachEntry(_, _, _)
forEachEntry(map, keys, obj) ==
    IF keys = {} THEN obj
    ELSE LET key == CHOOSE k \in keys : TRUE
         IN  forEachEntry(map, keys \ {key}, MapSet(obj, key, map[key]))

getAllResponsesAsObject(m) ==
    forEachEntry(m.criticalEndpointResponses, DOMAIN m.criticalEndpointResponses, << >>)

\* Queried with getAllResponsesAsObject emptying the Map as it copies it
Queried_drains(m, query) ==
    IF query = "getAllResponsesAsObject"
    THEN [ m EXCEPT !.criticalEndpointResponses = << >> ]
    ELSE m

\* The fields of the monitor after a call of one of the queries: none of
\* them assigns a field or changes the Map.
Queried(m, query) == m

\* Map.prototype.size is the number of keys
getStats(m) ==
    [ totalRequests            |-> m.requestCount,
      consoleErrors            |-> m.errorCount,
      serverErrors             |-> m.serverErrorCount,
      criticalEndpointsTracked |-> Cardinality(DOMAIN m.criticalEndpointResponses),
      criticalEndpointsFailed  |-> m.criticalEndpointFailed ]


------------------------------------------------------------------------------
(* Runner: the fields and the position of one session *)

\* The state after the constructor.  context, page and url are the fields of
\* the class; pc is the await the run is suspended at; promise is the state of
\* the promise index.ts holds for this session.  The rest is history: exit is
\* the way run() left its try block, failedAt the await whose failure reached
\* the catch block, calls the collaborator calls made so far in order,
\* artifacts the screenshots captureScreenshot saved, gate the way the health wait ended,
\* criticalRead what hasCriticalFailure() returned at line 72, browserCalls
\* the methods this runner has called on the shared browser handle.
NewRunner ==
    [ pc           |-> "idle",
      url          |-> "",
      context      |-> "null",
      page         |-> "null",
      wired        |-> FALSE,
      closeCalls   |-> 0,
      promise      |-> "none",
      exit         |-> "none",
      failedAt     |-> "none",
      calls        |-> << >>,
      artifacts    |-> {},
      iframe       |-> "none",
      gate         |-> "none",
      criticalRead |-> "unread",
      browserCalls |-> << >> ]

Call(r, what) == [ r EXCEPT !.calls = Append(@, what) ]

\* A method call on this.browser
BrowserCall(r, method) == [ r EXCEPT !.browserCalls = Append(@, method) ]

\* EnterFinally closing the browser along with the context
EnterFinally_closesBrowser(r) ==
    IF r.context # "null"
    THEN [ BrowserCall(Call(r, "context.close"), "close")
             EXCEPT !.closeCalls = @ + 1, !.pc = "context.close" ]
    ELSE [ r EXCEPT !.pc = "done", !.promise = "fulfilled" ]

\* The finally block of run(): it calls context.close() when a context
\* exists, otherwise run() returns and its promise is fulfilled.
EnterFinally(r) ==
    IF r.context # "null"
    THEN [ Call(r, "context.close") EXCEPT !.closeCalls = @ + 1, !.pc = "context.close" ]
    ELSE [ r EXCEPT !.pc = "done", !.promise = "fulfilled" ]

\* Caught without the finally block
Caught_noFinally(r, where) ==
    [ r EXCEPT !.exit = "Errored", !.failedAt = where, !.pc = "done", !.promise = "fulfilled" ]

\* The catch block of run(): it logs the error and falls into finally.
Caught(r, where) ==
    EnterFinally([ r EXCEPT !.exit = "Errored", !.failedAt = where ])

\* `await this.context.close()` settles: a rejection leaves the finally block
\* as a rejection of run().
closeSettled(r, ok) ==
    IF ok
    THEN [ r EXCEPT !.context = "closed", !.pc = "done", !.promise = "fulfilled" ]
    ELSE [ r EXCEPT !.pc = "done", !.promise = "rejected" ]

\* run() from its start to `await this.browser.newContext()`
runStart(r, url) ==
    [ BrowserCall(Call(r, "newContext"), "newContext")
        EXCEPT !.url = url, !.pc = "newContext", !.promise = "pending" ]

newContextSettled(r, ok) ==
    IF ok THEN [ Call(r, "newPage") EXCEPT !.context = "open", !.pc = "newPage" ]
    ELSE Caught(r, "newContext")

\* newPageSettled with page.goto called before the listeners are registered
newPageSettled_gotoFirst(r, ok) ==
    IF ok THEN [ Call(r, "goto") EXCEPT !.page = "page", !.pc = "goto" ]
    ELSE Caught(r, "newPage")

\* newPage settles; on success the three listeners are registered and
\* page.goto is called.
newPageSettled(r, ok) ==
    IF ok THEN [ Call(r, "goto") EXCEPT !.page = "page", !.wired = TRUE, !.pc = "goto" ]
    ELSE Caught(r, "newPage")

\* gotoSettled with a failed navigation logged and passed over
gotoSettled_swallowed(r, ok) ==
    IF ok THEN [ Call(r, "monitorIframe") EXCEPT !.pc = "monitorIframe" ]
    ELSE [ Call(r, "monitorIframe") EXCEPT !.failedAt = "goto", !.pc = "monitorIframe" ]

\* `await this.page.goto(...)` settles: a rejection reaches the catch of
\* run(), otherwise monitorIframe is called.
gotoSettled(r, ok) ==
    IF ok THEN [ Call(r, "monitorIframe") EXCEPT !.pc = "monitorIframe" ]
    ELSE Caught(r, "goto")

\* monitorIframeSettled with a missing or unloaded frame thrown to run()
monitorIframeSettled_throws(r, outcome) ==
    IF outcome = "loaded"
    THEN [ Call(r, "waitForResponse") EXCEPT
             !.iframe = "loaded", !.pc = "waitForResponse", !.gate = "pending" ]
    ELSE Caught([ r EXCEPT !.iframe = "degraded" ], "monitorIframe")

\* monitorIframe: waitForSelector, $, contentFrame and waitForLoadState, with
\* nothing of the session read or written between them.  Every outcome (frame
\* loaded, selector timeout, element or frame missing, load-state timeout) is
\* caught inside and returns; run() goes on to waitForAppReady, which calls
\* page.waitForResponse.  iframe records whether the frame was monitored.
monitorIframeSettled(r, outcome) ==
    [ Call(r, "waitForResponse") EXCEPT
        !.iframe = IF outcome = "loaded" THEN "loaded" ELSE "degraded",
        !.pc = "waitForResponse", !.gate = "pending" ]

\* captureScreenshot(label): page.$ and screenshot; every failure is caught
\* inside.  outcome is "saved", "no-iframe" or "failed".
captureScreenshot(r, label, outcome) ==
    IF outcome = "saved" THEN [ r EXCEPT !.artifacts = @ \cup {label} ] ELSE r

\* criticalCheck going on to the scenario whatever the flag
criticalCheck_ignoresFlag(r, m) ==
    [ Call(r, "captureScreenshot:before-scenario") EXCEPT
        !.criticalRead = IF hasCriticalFailure(m) THEN "true" ELSE "false",
        !.pc = "captureScreenshot:before-scenario" ]

\* Lines 71-81 of run(): the critical check and the call of the screenshot
\* that follows it.
criticalCheck(r, m) ==
    IF hasCriticalFailure(m)
    THEN [ Call(r, "captureScreenshot") EXCEPT
             !.criticalRead = "true", !.pc = "captureScreenshot" ]
    ELSE [ Call(r, "captureScreenshot:before-scenario") EXCEPT
             !.criticalRead = "false", !.pc = "captureScreenshot:before-scenario" ]

\* waitForResponseTimedOut with the timeout rethrown to run()
waitForResponseTimedOut_rethrows(r, m) ==
    Caught([ r EXCEPT !.gate = "timed-out" ], "waitForResponse")

\* waitForResponse rejects with a timeout: the catch of waitForAppReady logs
\* it and run() goes on to the critical check.
waitForResponseTimedOut(r, m) ==
    criticalCheck([ r EXCEPT !.gate = "timed-out" ], m)

\* waitForResponse resolves on a response whose url ends with /health and
\* waitForAppReady starts the 100 ms settle delay.
waitForResponseMatched(r) ==
    [ r EXCEPT !.gate = "observed", !.pc = "settle" ]

\* The settle delay elapses: hasHealthCheckPassed() is read for the log only.
settleElapsed(r, m) ==
    criticalCheck([ r EXCEPT !.gate = IF hasHealthCheckPassed(m) THEN "passed" ELSE "not-ok" ], m)

\* diagnosticSettled without the return of line 77
diagnosticSettled_noReturn(r, outcome) ==
    [ Call(captureScreenshot(r, "diagnostic", outcome), "captureScreenshot:before-scenario")
        EXCEPT !.pc = "captureScreenshot:before-scenario" ]

\* The diagnostic screenshot settles and run() returns at line 77.
diagnosticSettled(r, outcome) ==
    EnterFinally([ captureScreenshot(r, "diagnostic", outcome) EXCEPT !.exit = "Aborted" ])

\* beforeSettled with a failed capture thrown to run()
beforeSettled_failureThrows(r, outcome) ==
    IF outcome = "saved"
    THEN [ Call(Call(captureScreenshot(r, "before-scenario", outcome), "execute"), "step1")
             EXCEPT !.pc = "step1" ]
    ELSE Caught(r, "captureScreenshot:before-scenario")

\* The before-scenario screenshot settles; executeScenario calls
\* Scenario.execute, which calls step1.
beforeSettled(r, outcome) ==
    [ Call(Call(captureScreenshot(r, "before-scenario", outcome), "execute"), "step1")
        EXCEPT !.pc = "step1" ]

StepName(k) == CASE k = 1 -> "step1" [] k = 2 -> "step2" [] k = 3 -> "step3" [] OTHER -> "step4"

\* stepSettled with the failure logged by the step and not rethrown
stepSettled_swallowed(r, k, ok) ==
    IF ok THEN [ Call(r, "takeScreenshot") EXCEPT !.pc = "takeScreenshot" ]
    ELSE [ Call(r, "takeScreenshot") EXCEPT !.failedAt = StepName(k), !.pc = "takeScreenshot" ]

\* stepSettled with the failure escaping run() uncaught
stepSettled_uncaught(r, k, ok) ==
    IF ok THEN [ Call(r, "takeScreenshot") EXCEPT !.pc = "takeScreenshot" ]
    ELSE [ r EXCEPT !.failedAt = StepName(k), !.pc = "done", !.promise = "rejected" ]

\* Step k of Scenario.execute settles (getIframeContent, waitForSelector,
\* click, waitForTimeout).  A failure is rethrown by the step, by execute and
\* by executeScenario and reaches the catch of run(); otherwise execute calls
\* takeScreenshot for the step.
stepSettled(r, k, ok) ==
    IF ok THEN [ Call(r, "takeScreenshot") EXCEPT !.pc = "takeScreenshot" ]
    ELSE Caught(r, StepName(k))

StepOf(pc) == CASE pc = "step1" -> 1 [] pc = "step2" -> 2 [] pc = "step3" -> 3
                [] pc = "step4" -> 4 [] OTHER -> 0

\* The number of the scenario step whose screenshot is being taken: the
\* steps called so far.
StepsCalled(r) == Cardinality({ n \in 1..Len(r.calls) : StepOf(r.calls[n]) > 0 })

\* takeScreenshot(stepK) of the scenario settles: page.$ and screenshot, every
\* failure caught inside, so whatever the outcome execute goes on to the next
\* step or returns, and run() then calls the after-scenario screenshot.
takeScreenshotSettled(r, outcome) ==
    LET k == StepsCalled(r) IN
    IF k < 4
    THEN [ Call(r, StepName(k + 1)) EXCEPT !.pc = StepName(k + 1) ]
    ELSE [ Call(r, "captureScreenshot:after-scenario") EXCEPT
             !.pc = "captureScreenshot:after-scenario" ]

\* The after-scenario screenshot settles; logResponseSummary runs and run()
\* leaves the try block.
afterSettled(r, outcome) ==
    EnterFinally([ Call(captureScreenshot(r, "after-scenario", outcome), "logResponseSummary")
                     EXCEPT !.exit = "Completed" ])


------------------------------------------------------------------------------
(* The launcher: main of index.ts *)

RUNNER_COUNT == 1

\* The state when chromium.launch has resolved.  pc is the position of main;
\* URLS is the parsed candidate list, hasUrls whether the file held the key.
NewMain(hasUrls, URLS) ==
    [ pc |-> "launch", hasUrls |-> hasUrls, URLS |-> URLS,
      browser |-> "open", closeCalls |-> 0, all |-> "pending" ]

\* URLS[Math.floor(Math.random() * URLS.length)]: any entry, undefined for
\* an empty list
RandomUrls(URLS) ==
    IF Len(URLS) = 0 THEN {"undefined"} ELSE { URLS[n] : n \in 1..Len(URLS) }

\* `!randomUrl`
Falsy(url) == url = "undefined" \/ url = ""

\* One callback of Array.from: it runs to its first await.  Reading
\* URLS.length of an undefined list throws, which rejects the callback's
\* promise; a falsy url returns; otherwise a Runner is made and run() called.
launchRunner(r, hasUrls, url) ==
    IF ~hasUrls THEN [ r EXCEPT !.pc = "done", !.promise = "rejected", !.failedAt = "URLS" ]
    ELSE IF Falsy(url) THEN [ r EXCEPT !.pc = "done", !.promise = "fulfilled" ]
    ELSE runStart(r, url)

\* Promise.all over the sessions' promises
PromiseAll(promises) ==
    IF \E i \in DOMAIN promises : promises[i] = "rejected" THEN "rejected"
    ELSE IF \A i \in DOMAIN promises : promises[i] = "fulfilled" THEN "fulfilled"
    ELSE "pending"

------------------------------------------------------------------------------
(* History of the events delivered to a monitor *)

\* responses, requests and consoles count the events delivered, errors the
\* console events of level error, serverResponses the responses with a status
\* of 500 or more; last is the latest event: its kind and, of a response, its
\* status and whether its url ends with /health, of a request, whether it is
\* network traffic (xhr or fetch).  lastOf, kept in the critical-endpoint
\* specifications, holds for each endpoint name the observation of the
\* response that arrived last among those that store one.
NewHistory ==
    [ responses |-> 0, requests |-> 0, consoles |-> 0,
      errors |-> 0, serverResponses |-> 0, lastOf |-> << >>,
      seenHealth200 |-> FALSE, seenBad |-> FALSE,
      last |-> [ kind |-> "none" ] ]

IsHealthUrl(url) == EndsWith(url, "/health")

IsOtherCriticalUrl(url) ==
    \E e \in {"/getStore", "/getToken", "/getOrderTypeData", "/getDataAuthStore"} :
        EndsWith(url, e)

\* A body that is JSON and carries no error indicator (a boolean field error
\* set true)
BodyIsClean(body) == body \in {"{error:false}", "{}", "null"}

\* A response that the specification counts as a failure of a critical
\* endpoint
IsBadResponse(response) ==
    \/ IsHealthUrl(response.url) /\ response.status # 200
    \/ IsOtherCriticalUrl(response.url) /\ ~BodyIsClean(response.body)

\* The observations a monitor stores for one response processed alone, from
\* the handler call to the end of the body read: a map of one entry or none
ObservationOf(response) ==
    LET m == handleResponse(NewMonitor, response) IN
    IF m.pendingJson = << >> THEN m.criticalEndpointResponses
    ELSE jsonSettled([ m EXCEPT !.pendingJson = << >> ], m.pendingJson[1]).criticalEndpointResponses

\* map with the entries of newer added or replaced
Overwrite(map, newer) ==
    [ k \in (DOMAIN map) \cup (DOMAIN newer) |-> IF k \in DOMAIN newer THEN newer[k] ELSE map[k] ]

RecordArrival(h, response) ==
    [ h EXCEPT !.lastOf = Overwrite(@, ObservationOf(response)) ]

RecordResponse(h, response) ==
    [ h EXCEPT
        !.responses = @ + 1,
        !.serverResponses = IF response.status >= 500 THEN @ + 1 ELSE @,
        !.seenHealth200 = @ \/ (IsHealthUrl(response.url) /\ response.status = 200),
        !.seenBad = @ \/ IsBadResponse(response),
        !.last = [ kind |-> "response", status |-> response.status,
                   health |-> IsHealthUrl(response.url) ] ]

------------------------------------------------------------------------------
(* Actions: events of the page of session i *)

Delivered(h) == h.responses + h.requests + h.consoles

RECURSIVE Sum(_, _)
Sum(f, S) == IF S = {} THEN 0
             ELSE LET x == CHOOSE y \in S : TRUE IN f[x] + Sum(f, S \ {x})

\* The events delivered so far to all the monitors
DeliveredInAll == Sum([ i \in DOMAIN hist |-> Delivered(hist[i]) ], DOMAIN hist)

\* The page of session i exists and its context is open: the page can emit
\* events.
PageOpen(i) == run[i].page = "page" /\ run[i].context = "open"

\* The page emits events from its creation until the context is closed.
Listening(i) == PageOpen(i) /\ DeliveredInAll < MaxEvents

\* An event of the page reaches the handler through the listener registered
\* with page.on: `handled` when the listeners are registered, otherwise the
\* monitor m is left as it is.
Heard(i, m, handled) == IF run[i].wired THEN handled ELSE m

\* Respond with one handler instance shared by all the runners
Respond_sharedHandler(i, response) ==
    /\ mon' = [ j \in DOMAIN mon |-> handleResponse(mon[j], response) ]
    /\ run' = [ run EXCEPT ![i] =
                  IF @.pc = "waitForResponse" /\ EndsWith(response.url, "/health")
                  THEN waitForResponseMatched(@) ELSE @ ]
    /\ UNCHANGED main

\* A response event: the listener registered at line 56 calls handleResponse
\* of the runner's own handler (constructed at line 33), and a pending
\* page.waitForResponse sees the same event.
Respond(i, response) ==
    /\ mon' = [ mon EXCEPT ![i] = Heard(i, @, handleResponse(@, response)) ]
    /\ run' = [ run EXCEPT ![i] =
                  IF @.pc = "waitForResponse" /\ EndsWith(response.url, "/health")
                  THEN waitForResponseMatched(@) ELSE @ ]
    /\ UNCHANGED main

PageResponse(i, response) ==
    /\ Listening(i)
    /\ Respond(i, response)
    /\ hist' = [ hist EXCEPT ![i] = RecordResponse(@, response) ]

\* A response event of the critical-endpoint specifications
EndpointResponse(i, response) ==
    /\ PageOpen(i)
    /\ hist[i].responses < MaxObserved
    /\ Respond(i, response)
    /\ hist' = [ hist EXCEPT ![i] = RecordArrival(RecordResponse(@, response), response) ]

PageRequest(i, request) ==
    /\ Listening(i)
    /\ mon' = [ mon EXCEPT ![i] = Heard(i, @, handleRequest(@, request)) ]
    /\ hist' = [ hist EXCEPT ![i].requests = @ + 1,
                             ![i].last = [ kind |-> "request",
                                           network |-> request.resourceType \in {"xhr", "fetch"} ] ]
    /\ UNCHANGED <<run, main>>

PageConsole(i, msg) ==
    /\ Listening(i)
    /\ mon' = [ mon EXCEPT ![i] = Heard(i, @, handleConsole(@, msg)) ]
    /\ hist' = [ hist EXCEPT ![i].consoles = @ + 1,
                             ![i].errors = IF msg.type = "error" THEN @ + 1 ELSE @,
                             ![i].last = [ kind |-> "console" ] ]
    /\ UNCHANGED <<run, main>>

\* The queries of the monitor
Queries ==
    { "hasCriticalFailure", "hasHealthCheckPassed", "getEndpointResponse",
      "getAllResponsesAsObject", "getStats" }

\* A caller reads the monitor of session i through one of its queries.
Query(i, query) ==
    /\ mon' = [ mon EXCEPT ![i] = Queried(@, query) ]
    /\ hist' = [ hist EXCEPT ![i].last = [ kind |-> "query", query |-> query ] ]
    /\ UNCHANGED <<run, main>>

RemoveAt(seq, k) == [ n \in 1..(Len(seq) - 1) |-> IF n < k THEN seq[n] ELSE seq[n + 1] ]

\* response.json() of the k-th suspended call settles; the calls settle in
\* any order.
JsonSettle(i, k) ==
    /\ k \in 1..Len(mon[i].pendingJson)
    /\ mon' = [ mon EXCEPT ![i] =
                  jsonSettled([ @ EXCEPT !.pendingJson = RemoveAt(@, k) ],
                              mon[i].pendingJson[k]) ]
    /\ UNCHANGED <<hist, run, main>>

------------------------------------------------------------------------------
(* Actions: the steps of Runner.run of session i *)

At(i, pc) == run[i].pc = pc

RunnerStep(i, r) ==
    /\ run' = [ run EXCEPT ![i] = r ]
    /\ UNCHANGED <<mon, hist, main>>

NewContextSettle(i, ok) == At(i, "newContext") /\ RunnerStep(i, newContextSettled(run[i], ok))

NewPageSettle(i, ok) == At(i, "newPage") /\ RunnerStep(i, newPageSettled(run[i], ok))

GotoSettle(i, ok) == At(i, "goto") /\ RunnerStep(i, gotoSettled(run[i], ok))

MonitorIframeSettle(i, outcome) ==
    At(i, "monitorIframe") /\ RunnerStep(i, monitorIframeSettled(run[i], outcome))

WaitForResponseTimeout(i) ==
    At(i, "waitForResponse") /\ RunnerStep(i, waitForResponseTimedOut(run[i], mon[i]))

SettleElapse(i) == At(i, "settle") /\ RunnerStep(i, settleElapsed(run[i], mon[i]))

DiagnosticSettle(i, outcome) ==
    At(i, "captureScreenshot") /\ RunnerStep(i, diagnosticSettled(run[i], outcome))

BeforeSettle(i, outcome) ==
    At(i, "captureScreenshot:before-scenario") /\ RunnerStep(i, beforeSettled(run[i], outcome))

StepSettle(i, ok) ==
    /\ StepOf(run[i].pc) > 0
    /\ RunnerStep(i, stepSettled(run[i], StepOf(run[i].pc), ok))

TakeScreenshotSettle(i, outcome) ==
    At(i, "takeScreenshot") /\ RunnerStep(i, takeScreenshotSettled(run[i], outcome))

AfterSettle(i, outcome) ==
    At(i, "captureScreenshot:after-scenario") /\ RunnerStep(i, afterSettled(run[i], outcome))

CloseSettle(i, ok) == At(i, "context.close") /\ RunnerStep(i, closeSettled(run[i], ok))

------------------------------------------------------------------------------
(* Actions: the launcher *)

\* Array.from runs the K callbacks one after the other, each to its first
\* await; main then awaits Promise.all.
Launch ==
    /\ main.pc = "launch"
    /\ \E pick \in [ DOMAIN run -> RandomUrls(main.URLS) ] :
         run' = [ i \in DOMAIN run |-> launchRunner(run[i], main.hasUrls, pick[i]) ]
    /\ main' = [ main EXCEPT !.pc = "Promise.all" ]
    /\ UNCHANGED <<mon, hist>>

\* `await Promise.all(runnerPromises)` settles and the finally block calls
\* browser.close().
AwaitAllSettle ==
    /\ main.pc = "Promise.all"
    /\ PromiseAll([ i \in DOMAIN run |-> run[i].promise ]) # "pending"
    /\ main' = [ main EXCEPT
                   !.all = PromiseAll([ i \in DOMAIN run |-> run[i].promise ]),
                   !.pc = "browser.close",
                   !.browser = "closed",
                   !.closeCalls = @ + 1 ]
    /\ UNCHANGED <<mon, hist, run>>

BrowserCloseSettle ==
    /\ main.pc = "browser.close"
    /\ main' = [ main EXCEPT !.pc = "done" ]
    /\ UNCHANGED <<mon, hist, run>>


------------------------------------------------------------------------------
(* The monitor alone: one session whose page is navigating, and every event
   the page can emit *)

TargetUrl == "https://app.example/s/1"

Host == "https://api.example"

HealthUrl == <<Host, "/health">>

MenuUrl == <<Host, "/menu">>

StoreUrl == <<Host, "/getStore">>

\* Every status band and its edges
AllStatuses == { 199, 200, 204, 299, 300, 399, 400, 499, 500, 503, 599, 600 }

Bodies == { "not-json", "null", "{error:true}", "{error:false}" }

\* Every status on /health and on a url that is no critical endpoint; urls
\* that end and that do not end with /health, with bodies that are not clean;
\* two of the other critical endpoints, one with every kind of body.
MonitorResponses ==
    [ status : AllStatuses, url : { HealthUrl, MenuUrl }, body : {"{error:false}"} ]
    \cup [ status : { 200, 503 },
           url : { HealthUrl, <<Host, "/getStore", "/health">>, <<Host, "/health", "?t=1">> },
           body : { "not-json", "{error:true}" } ]
    \cup [ status : { 200, 204, 503 }, url : { StoreUrl }, body : Bodies ]
    \cup [ status : { 200 }, url : { <<Host, "/getOrderTypeData">> },
           body : { "{error:true}", "{error:false}" } ]

ConsoleMessages ==
    [ type : {"error", "warning", "log", "debug"}, text : {"Failed to load resource"} ]

Requests ==
    [ resourceType : {"xhr", "fetch", "image"}, url : { <<Host, "/getStore">> } ]

Navigating(url) ==
    newPageSettled(newContextSettled(runStart(NewRunner, url), TRUE), TRUE)

InitMonitor ==
    /\ mon = [ i \in 0..(RUNNER_COUNT - 1) |-> NewMonitor ]
    /\ hist = [ i \in 0..(RUNNER_COUNT - 1) |-> NewHistory ]
    /\ run = [ i \in 0..(RUNNER_COUNT - 1) |-> Navigating(TargetUrl) ]
    /\ main = [ NewMain(TRUE, <<TargetUrl>>) EXCEPT !.pc = "Promise.all" ]

NextMonitor ==
    \/ \E i \in 0..(RUNNER_COUNT - 1), response \in MonitorResponses : PageResponse(i, response)
    \/ \E i \in 0..(RUNNER_COUNT - 1), request \in Requests : PageRequest(i, request)
    \/ \E i \in 0..(RUNNER_COUNT - 1), msg \in ConsoleMessages : PageConsole(i, msg)
    \/ \E i \in 0..(RUNNER_COUNT - 1), k \in 1..MaxEvents : JsonSettle(i, k)

SpecMonitor == InitMonitor /\ [][NextMonitor]_vars


------------------------------------------------------------------------------
(* The monitor and the five critical endpoints: one session whose page is
   navigating, and successful responses of every critical endpoint *)

\* The five critical endpoints, a url that names two of them, and a url that
\* is none
EndpointUrls ==
    { << Host, criticalEndpoints[n] >> : n \in 1..Len(criticalEndpoints) }
    \cup { << Host, "/health", "/getStore" >>, MenuUrl }

EndpointResponses == [ status : { 200 }, url : EndpointUrls, body : { "{error:false}" } ]

NextEndpoints ==
    \/ \E i \in 0..(RUNNER_COUNT - 1), response \in EndpointResponses : EndpointResponse(i, response)
    \/ \E i \in 0..(RUNNER_COUNT - 1), k \in 1..MaxObserved : JsonSettle(i, k)

SpecEndpoints == InitMonitor /\ [][NextEndpoints]_vars

------------------------------------------------------------------------------
(* The monitor and one critical endpoint observed again and again: responses
   of /getStore with every kind of body, and of /health *)

RepeatedResponses ==
    [ status : { 200 }, url : { StoreUrl }, body : Bodies ]
    \cup [ status : { 200, 204 }, url : { HealthUrl }, body : { "{error:false}" } ]

NextRepeated ==
    \/ \E i \in 0..(RUNNER_COUNT - 1), response \in RepeatedResponses : EndpointResponse(i, response)
    \/ \E i \in 0..(RUNNER_COUNT - 1), k \in 1..MaxObserved : JsonSettle(i, k)

SpecRepeated == InitMonitor /\ [][NextRepeated]_vars

------------------------------------------------------------------------------
(* One session from launch to the end of main, as index.ts runs it *)

ShotOutcomes == { "saved", "no-iframe", "failed" }

IframeOutcomes == { "loaded", "no-selector", "no-element", "no-frame", "load-timeout" }

\* The candidate lists: one url, none, and one with an empty entry
UrlLists == { <<TargetUrl>>, << >>, <<TargetUrl, "">> }

\* /health with 200, with another success status and with a server error;
\* a critical endpoint with an error body and with a clean one.
SessionResponses ==
    [ status : { 200, 204, 503 }, url : { HealthUrl }, body : {"{error:false}"} ]
    \cup [ status : { 200 }, url : { StoreUrl }, body : { "{error:true}", "{error:false}" } ]

\* The sessions index.ts launches
SessionIds == 0..(RUNNER_COUNT - 1)

InitSession ==
    /\ mon = [ i \in SessionIds |-> NewMonitor ]
    /\ hist = [ i \in SessionIds |-> NewHistory ]
    /\ run = [ i \in SessionIds |-> NewRunner ]
    /\ \E hasUrls \in BOOLEAN :
         \E URLS \in (IF hasUrls THEN UrlLists ELSE { << >> }) :
            main = NewMain(hasUrls, URLS)

NextSession ==
    \/ Launch
    \/ AwaitAllSettle
    \/ BrowserCloseSettle
    \/ \E i \in SessionIds, ok \in BOOLEAN : NewContextSettle(i, ok)
    \/ \E i \in SessionIds, ok \in BOOLEAN : NewPageSettle(i, ok)
    \/ \E i \in SessionIds, ok \in BOOLEAN : GotoSettle(i, ok)
    \/ \E i \in SessionIds, outcome \in IframeOutcomes : MonitorIframeSettle(i, outcome)
    \/ \E i \in SessionIds : WaitForResponseTimeout(i)
    \/ \E i \in SessionIds : SettleElapse(i)
    \/ \E i \in SessionIds, outcome \in ShotOutcomes : DiagnosticSettle(i, outcome)
    \/ \E i \in SessionIds, outcome \in ShotOutcomes : BeforeSettle(i, outcome)
    \/ \E i \in SessionIds, ok \in BOOLEAN : StepSettle(i, ok)
    \/ \E i \in SessionIds, outcome \in ShotOutcomes : TakeScreenshotSettle(i, outcome)
    \/ \E i \in SessionIds, outcome \in ShotOutcomes : AfterSettle(i, outcome)
    \/ \E i \in SessionIds, ok \in BOOLEAN : CloseSettle(i, ok)
    \/ \E i \in SessionIds, response \in SessionResponses : PageResponse(i, response)
    \/ \E i \in SessionIds, k \in 1..MaxEvents : JsonSettle(i, k)

SpecSession == InitSession /\ [][NextSession]_vars

\* Some await of run() of session i settles.
RunnerProgress(i) ==
    \/ \E ok \in BOOLEAN :
         \/ NewContextSettle(i, ok) \/ NewPageSettle(i, ok) \/ GotoSettle(i, ok)
         \/ StepSettle(i, ok) \/ CloseSettle(i, ok)
    \/ \E outcome \in IframeOutcomes : MonitorIframeSettle(i, outcome)
    \/ WaitForResponseTimeout(i) \/ SettleElapse(i)
    \/ \E outcome \in ShotOutcomes :
         \/ DiagnosticSettle(i, outcome) \/ BeforeSettle(i, outcome)
         \/ TakeScreenshotSettle(i, outcome) \/ AfterSettle(i, outcome)

\* Every await of run() settles: each is a browser call that resolves or
\* rejects, the selector, load-state and response waits within their
\* timeouts, the settle delay after 100 ms.
FairSession ==
    SpecSession /\ \A i \in SessionIds : WF_vars(RunnerProgress(i))

------------------------------------------------------------------------------
(* The monitor and its queries: one session whose page is navigating, the
   events of its page, and the queries called between them *)

NextQueries ==
    \/ \E i \in 0..(RUNNER_COUNT - 1), response \in SessionResponses : PageResponse(i, response)
    \/ \E i \in 0..(RUNNER_COUNT - 1), request \in Requests : PageRequest(i, request)
    \/ \E i \in 0..(RUNNER_COUNT - 1), msg \in ConsoleMessages : PageConsole(i, msg)
    \/ \E i \in 0..(RUNNER_COUNT - 1), k \in 1..MaxEvents : JsonSettle(i, k)
    \/ \E i \in 0..(RUNNER_COUNT - 1), query \in Queries : Query(i, query)

SpecQueries == InitMonitor /\ [][NextQueries]_vars

------------------------------------------------------------------------------
(* Several sessions on one browser: the launcher with NumSessions runners
   in place of RUNNER_COUNT.  The pages emit no events here, so every health
   wait ends by its timeout; navigation, a scenario step and the release of
   the context can fail. *)

LaunchIds == 0..(NumSessions - 1)

InitLaunch ==
    /\ mon = [ i \in LaunchIds |-> NewMonitor ]
    /\ hist = [ i \in LaunchIds |-> NewHistory ]
    /\ run = [ i \in LaunchIds |-> NewRunner ]
    /\ main = NewMain(TRUE, <<TargetUrl>>)

NextLaunch ==
    \/ Launch
    \/ AwaitAllSettle
    \/ BrowserCloseSettle
    \/ \E i \in LaunchIds : NewContextSettle(i, TRUE)
    \/ \E i \in LaunchIds : NewPageSettle(i, TRUE)
    \/ \E i \in LaunchIds, ok \in BOOLEAN : GotoSettle(i, ok)
    \/ \E i \in LaunchIds : MonitorIframeSettle(i, "loaded")
    \/ \E i \in LaunchIds : WaitForResponseTimeout(i)
    \/ \E i \in LaunchIds : BeforeSettle(i, "saved")
    \/ \E i \in LaunchIds, ok \in BOOLEAN : StepSettle(i, ok)
    \/ \E i \in LaunchIds : TakeScreenshotSettle(i, "saved")
    \/ \E i \in LaunchIds : AfterSettle(i, "saved")
    \/ \E i \in LaunchIds, ok \in BOOLEAN : CloseSettle(i, ok)

SpecLaunch == InitLaunch /\ [][NextLaunch]_vars

------------------------------------------------------------------------------
(* The monitors of several sessions: NumSessions sessions whose pages are
   navigating, and the events their pages emit *)

InitShared ==
    /\ mon = [ i \in LaunchIds |-> NewMonitor ]
    /\ hist = [ i \in LaunchIds |-> NewHistory ]
    /\ run = [ i \in LaunchIds |-> Navigating(TargetUrl) ]
    /\ main = [ NewMain(TRUE, <<TargetUrl>>) EXCEPT !.pc = "Promise.all" ]

NextShared ==
    \/ \E i \in LaunchIds, response \in SessionResponses : PageResponse(i, response)
    \/ \E i \in LaunchIds, request \in Requests : PageRequest(i, request)
    \/ \E i \in LaunchIds, msg \in ConsoleMessages : PageConsole(i, msg)
    \/ \E i \in LaunchIds, k \in 1..MaxEvents : JsonSettle(i, k)

SpecShared == InitShared /\ [][NextShared]_vars

------------------------------------------------------------------------------
(* Properties of the monitor, under SpecMonitor *)

Flag(i) == hasCriticalFailure(mon[i])

Observations(i) == mon[i].criticalEndpointResponses

\* C1: once hasCriticalFailure() is true it is true in every later state of
\* the session, whatever console, request or response event follows.
C1_FailureIsSticky ==
    [][ \A i \in DOMAIN mon :
          hasCriticalFailure(mon[i]) => hasCriticalFailure(mon'[i]) ]_vars

\* The flag is set, and later responses have overwritten every stored
\* observation with a success, /health 200 among them.
C1_Witness ==
    \E i \in DOMAIN mon :
        /\ Flag(i)
        /\ hasHealthCheckPassed(mon[i])
        /\ mon[i].pendingJson = << >>
        /\ DOMAIN Observations(i) = {"/health", "/getStore"}
        /\ \A k \in DOMAIN Observations(i) :
               /\ "body" \in DOMAIN Observations(i)[k]
               /\ Observations(i)[k].body \in {"OK (200)", "{error:false}"}

\* The latest event was a response whose url ends with /health and whose
\* status is not 200.
HealthNot200(i) ==
    /\ hist[i].last.kind = "response"
    /\ hist[i].last.health
    /\ hist[i].last.status # 200

\* C2: after a response whose url ends with /health and whose status is not
\* 200, hasCriticalFailure() is true, the event has not set
\* hasHealthCheckPassed(), and the /health observation is an error
\* observation with the text "HTTP <status>".
C2_HealthNot200Fails ==
    \A i \in DOMAIN mon :
        HealthNot200(i) =>
            /\ Flag(i)
            /\ (~hist[i].seenHealth200 => ~hasHealthCheckPassed(mon[i]))
            /\ "/health" \in DOMAIN Observations(i)
            /\ "error" \in DOMAIN Observations(i)["/health"]
            /\ Observations(i)["/health"].error =
                   [ text |-> "HTTP", status |-> hist[i].last.status ]

\* C3: hasHealthCheckPassed() is true exactly when a response whose url ends
\* with /health and whose status is 200 has been processed, whatever the
\* bodies were; the history is monotone, so the flag never returns to false.
C3_HealthPassedIffHealth200 ==
    \A i \in DOMAIN mon :
        hasHealthCheckPassed(mon[i]) <=> hist[i].seenHealth200

\* The flag is still true after a later /health response that is not 200.
C3_Witness ==
    \E i \in DOMAIN mon : hasHealthCheckPassed(mon[i]) /\ HealthNot200(i)

\* C4: when every body read has settled, criticalEndpointFailed is false
\* exactly when every response of a critical endpoint seen so far was good: a
\* clean body on the four endpoints, status 200 on /health.
C4_FlagIffAllGood ==
    \A i \in DOMAIN mon :
        mon[i].pendingJson = << >> => (~Flag(i) <=> ~hist[i].seenBad)

\* The names of the critical endpoints
EndpointNames == { criticalEndpoints[n] : n \in 1..Len(criticalEndpoints) }

\* C14: the observation map holds at most 5 entries, every key is one of the
\* five critical endpoint names, and getStats().criticalEndpointsTracked is
\* the number of critical endpoint names that have a stored observation.
C14_MapBoundedByEndpoints ==
    \A i \in DOMAIN mon :
        /\ DOMAIN Observations(i) \subseteq EndpointNames
        /\ Cardinality(DOMAIN Observations(i)) <= 5
        /\ getStats(mon[i]).criticalEndpointsTracked =
               Cardinality({ e \in EndpointNames : e \in DOMAIN Observations(i) })

\* All five endpoints have a stored observation, no body read is pending,
\* and more than five responses have been delivered.
C14_Witness ==
    \E i \in DOMAIN mon :
        /\ DOMAIN Observations(i) = EndpointNames
        /\ getStats(mon[i]).criticalEndpointsTracked = 5
        /\ mon[i].pendingJson = << >>
        /\ hist[i].responses > 5

C16_LastArrivedWins ==
    \A i \in DOMAIN mon :
        mon[i].pendingJson = << >> => Observations(i) = hist[i].lastOf

\* The step settles the body read of the k-th suspended call of session i.
SettledCall(i, k) ==
    /\ k \in 1..Len(mon[i].pendingJson)
    /\ mon'[i].pendingJson = RemoveAt(mon[i].pendingJson, k)

\* C17: when the body read of a successful response of a critical endpoint
\* other than /health settles with a body that parses, the stored observation
\* of that endpoint carries the parsed body, and the response sets
\* criticalEndpointFailed exactly when the error field of the body is true.
C17_ParsedBodyStored ==
    [][ \A i \in DOMAIN mon : \A k \in 1..Len(mon[i].pendingJson) :
          (SettledCall(i, k) /\ JsonParses(mon[i].pendingJson[k].body)) =>
              LET call == mon[i].pendingJson[k] IN
              /\ mon'[i].criticalEndpointResponses[call.endpointName] = BodyObservation(call)
              /\ (~Flag(i) =>
                     (hasCriticalFailure(mon'[i]) <=> ErrorFieldIsTrue(call.body))) ]_vars

\* C18: when the body read of a successful response of a critical endpoint
\* other than /health settles with a body that cannot be parsed,
\* criticalEndpointFailed is true and the stored observation of that endpoint
\* is the parse-failure observation: the url and status of the response, an
\* error, no body.
C18_ParseFailureFails ==
    [][ \A i \in DOMAIN mon : \A k \in 1..Len(mon[i].pendingJson) :
          (SettledCall(i, k) /\ ~JsonParses(mon[i].pendingJson[k].body)) =>
              LET call == mon[i].pendingJson[k]
                  stored == mon'[i].criticalEndpointResponses[call.endpointName]
              IN  /\ hasCriticalFailure(mon'[i])
                  /\ DOMAIN stored = {"url", "status", "error"}
                  /\ stored.url = call.url
                  /\ stored.status = call.status
                  /\ stored.error.text = "Failed to parse JSON response" ]_vars

\* Every body read has settled, the one of a body that is not JSON last of
\* two: the flag is set and /getStore holds the parse-failure observation.
C18_Witness ==
    \E i \in DOMAIN mon :
        /\ mon[i].pendingJson = << >>
        /\ hist[i].responses = 2
        /\ "/getStore" \in DOMAIN hist[i].lastOf
        /\ hist[i].lastOf["/getStore"] = [ url |-> StoreUrl, status |-> 200, body |-> "{error:false}" ]
        /\ Flag(i)
        /\ "/getStore" \in DOMAIN Observations(i)
        /\ Observations(i)["/getStore"] =
               [ url |-> StoreUrl, status |-> 200,
                 error |-> [ text |-> "Failed to parse JSON response", cause |-> "SyntaxError" ] ]

\* The step is a call of a query on the monitor of session i: no event is
\* delivered and no body read settles.
QueryStep(i) ==
    /\ hist'[i].last.kind = "query"
    /\ Delivered(hist'[i]) = Delivered(hist[i])
    /\ mon'[i].pendingJson = mon[i].pendingJson

\* C22: a call of hasCriticalFailure, hasHealthCheckPassed,
\* getEndpointResponse, getAllResponsesAsObject or getStats leaves the
\* counters, the flags and the observation map of the monitor unchanged, and
\* getAllResponsesAsObject returns the keys and values of the map.
C22_QueriesArePure ==
    /\ [][ \A i \in DOMAIN mon : QueryStep(i) => mon'[i] = mon[i] ]_vars
    /\ [](\A i \in DOMAIN mon : getAllResponsesAsObject(mon[i]) = Observations(i))

\* getAllResponsesAsObject has been called on a monitor that holds two
\* observations, a failure among them.
C22_Witness ==
    \E i \in DOMAIN mon :
        /\ hist[i].last = [ kind |-> "query", query |-> "getAllResponsesAsObject" ]
        /\ DOMAIN getAllResponsesAsObject(mon[i]) = {"/health", "/getStore"}
        /\ Flag(i)
        /\ getStats(mon[i]).criticalEndpointsTracked = 2

HooksCalled(i) == { mon[i].hookCalls[n] : n \in 1..Len(mon[i].hookCalls) }

OutOfRangeResponse(i) ==
    /\ hist'[i].responses = hist[i].responses + 1
    /\ (hist'[i].last.status < 200 \/ hist'[i].last.status >= 600)

\* C6: a response whose status is outside [200, 600) fires no hook and
\* changes no counter and no flag of the monitor.
C6_NoHookOutsideRange ==
    [][ \A i \in DOMAIN mon :
          OutOfRangeResponse(i) =>
              /\ mon'[i].hookCalls = << >>
              /\ mon'[i].serverErrorCount = mon[i].serverErrorCount
              /\ mon'[i].errorCount = mon[i].errorCount
              /\ mon'[i].requestCount = mon[i].requestCount
              /\ mon'[i].criticalEndpointFailed = mon[i].criticalEndpointFailed
              /\ mon'[i].healthCheckPassed = mon[i].healthCheckPassed ]_vars


------------------------------------------------------------------------------
(* Properties of one session, under SpecSession and FairSession *)

Calls(i) == { run[i].calls[n] : n \in 1..Len(run[i].calls) }

Terminal == { "Completed", "Aborted", "Errored" }

Steps == { "step1", "step2", "step3", "step4" }

\* context.close() of session i rejected
CloseFailed(i) ==
    run[i].pc = "done" /\ run[i].closeCalls = 1 /\ run[i].context = "open"

\* C7: if hasCriticalFailure() is true at the critical check, the
\* diagnostic screenshot is attempted, Scenario.execute and its steps are
\* never called, no before- or after-scenario screenshot is called or saved,
\* and the run goes only to the release of its context and ends Aborted with
\* context.close() called once.
C7_CriticalFailureAborts ==
    \A i \in DOMAIN run :
        run[i].criticalRead = "true" =>
            /\ "captureScreenshot" \in Calls(i)
            /\ Calls(i) \cap ({"execute", "takeScreenshot", "logResponseSummary",
                               "captureScreenshot:before-scenario",
                               "captureScreenshot:after-scenario"} \cup Steps) = {}
            /\ run[i].artifacts \subseteq {"diagnostic"}
            /\ run[i].pc \in {"captureScreenshot", "context.close", "done"}
            /\ run[i].exit \in {"none", "Aborted"}
            /\ (run[i].pc = "done" => run[i].exit = "Aborted" /\ run[i].closeCalls = 1)

\* A session aborted at the critical check after a /health response that
\* was not 200, its screenshot saved and its context closed.
C7_Witness ==
    \E i \in DOMAIN run :
        /\ run[i].criticalRead = "true"
        /\ run[i].gate = "not-ok"
        /\ run[i].pc = "done"
        /\ run[i].exit = "Aborted"
        /\ run[i].artifacts = {"diagnostic"}
        /\ run[i].context = "closed"

\* C11: a session calls nothing on the shared browser handle but newContext,
\* once, on every path; and the state of the browser changes only in a step
\* of main in which no session moves.
C11_BrowserOnlySpawnsContexts ==
    /\ [](\A i \in SessionIds : run[i].browserCalls \in { << >>, << "newContext" >> })
    /\ [][ main'.browser # main.browser => (main.pc = "Promise.all" /\ run' = run) ]_vars

\* A session has ended Aborted with its context closed, having called
\* newContext alone on the browser, and the browser is still open.
C11_Witness ==
    \E i \in DOMAIN run :
        /\ run[i].exit = "Aborted"
        /\ run[i].pc = "done"
        /\ run[i].context = "closed"
        /\ run[i].browserCalls = << "newContext" >>
        /\ main.browser = "open"

C13_TimeoutMeansNotPassed ==
    [][ \A i \in DOMAIN run :
          (run[i].gate = "pending" /\ run'[i].gate = "timed-out") =>
              ~hasHealthCheckPassed(mon'[i]) ]_vars

\* The number of calls of `what` the run of session i has made
Count(i, what) == Cardinality({ n \in 1..Len(run[i].calls) : run[i].calls[n] = what })

\* C19: if page.goto fails the session ends Errored: monitorIframe, the
\* health wait, the critical check, every screenshot and the scenario are
\* skipped, context.close() is called once, and goto is called once only.
C19_NavigationFailureErrors ==
    \A i \in DOMAIN run :
        run[i].failedAt = "goto" =>
            /\ run[i].exit = "Errored"
            /\ Calls(i) = {"newContext", "newPage", "goto", "context.close"}
            /\ Count(i, "goto") = 1
            /\ run[i].iframe = "none"
            /\ run[i].gate = "none"
            /\ run[i].criticalRead = "unread"
            /\ run[i].artifacts = {}
            /\ run[i].pc \in {"context.close", "done"}
            /\ run[i].closeCalls = 1

\* A session whose navigation failed has ended Errored with its context
\* closed, after its page had received a response.
C19_Witness ==
    \E i \in DOMAIN run :
        /\ run[i].failedAt = "goto"
        /\ run[i].pc = "done"
        /\ run[i].exit = "Errored"
        /\ run[i].context = "closed"
        /\ hist[i].responses > 0

\* C20: if step k of the scenario fails, steps 1..k have been called once
\* each and no later step, the screenshots of steps 1..k-1 alone have been
\* taken, execute has been called once, neither the after-scenario screenshot
\* nor the summary is produced, the failure reaches the catch of run() so
\* that the session ends Errored, and context.close() is called once.
C20_StepFailureErrors ==
    \A i \in DOMAIN run : \A k \in 1..4 :
        run[i].failedAt = StepName(k) =>
            /\ run[i].exit = "Errored"
            /\ \A j \in 1..4 : Count(i, StepName(j)) = IF j <= k THEN 1 ELSE 0
            /\ Count(i, "takeScreenshot") = k - 1
            /\ Count(i, "execute") = 1
            /\ "captureScreenshot:after-scenario" \notin Calls(i)
            /\ "logResponseSummary" \notin Calls(i)
            /\ "after-scenario" \notin run[i].artifacts
            /\ run[i].pc \in {"context.close", "done"}
            /\ run[i].closeCalls = 1
            /\ (run[i].promise = "rejected" => CloseFailed(i))

\* A session whose third step failed has ended Errored with its context
\* closed, the before-scenario screenshot saved.
C20_Witness ==
    \E i \in DOMAIN run :
        /\ run[i].failedAt = "step3"
        /\ run[i].pc = "done"
        /\ run[i].exit = "Errored"
        /\ run[i].context = "closed"
        /\ run[i].artifacts = {"before-scenario"}

\* C8: a session that has acquired a context reaches Completed, Aborted or
\* Errored and the end of run(), whichever step failed, and context.close()
\* is called on it exactly once: never twice at any time, and once when
\* run() has ended.
C8_ContextReleasedOnce ==
    \A i \in SessionIds :
        /\ [](run[i].context # "null" =>
                <>(run[i].pc = "done" /\ run[i].exit \in Terminal /\ run[i].closeCalls = 1))
        /\ [](run[i].closeCalls <= 1)
        /\ []((run[i].pc = "done" /\ run[i].context # "null") =>
                (run[i].exit \in Terminal /\ run[i].closeCalls = 1))

\* A session whose page creation failed after the context was acquired has
\* ended Errored with its context closed.
C8_Witness ==
    \E i \in DOMAIN run :
        /\ run[i].failedAt = "newPage"
        /\ run[i].pc = "done"
        /\ run[i].exit = "Errored"
        /\ run[i].closeCalls = 1
        /\ run[i].context = "closed"

------------------------------------------------------------------------------
(* Properties of the launcher with several sessions, under SpecLaunch *)

\* The calls of a run that completes, in order
FullRun ==
    << "newContext", "newPage", "goto", "monitorIframe", "waitForResponse",
       "captureScreenshot:before-scenario", "execute",
       "step1", "takeScreenshot", "step2", "takeScreenshot",
       "step3", "takeScreenshot", "step4", "takeScreenshot",
       "captureScreenshot:after-scenario", "logResponseSummary", "context.close" >>

C21_MonitorsAreIsolated ==
    /\ [][ \A i \in LaunchIds : \A j \in LaunchIds \ {i} :
              (hist'[i] # hist[i] \/ mon'[i] # mon[i]) => mon'[j] = mon[j] ]_vars
    /\ [](\A j \in LaunchIds : hasCriticalFailure(mon[j]) => hist[j].seenBad)

\* Session 0 has a critical failure; session 1 has received a /health 200
\* and its flag is false; session 2 has received nothing.
C21_Witness ==
    /\ hasCriticalFailure(mon[0])
    /\ hasHealthCheckPassed(mon[1]) /\ ~hasCriticalFailure(mon[1])
    /\ \A j \in DOMAIN mon : j >= 2 => mon[j] = NewMonitor

\* C10: the browser is closed at most once, and only when every session has
\* ended, whatever failed inside a session.
C10_BrowserClosedLast ==
    /\ main.closeCalls <= 1
    /\ main.browser = "closed" => \A i \in DOMAIN run : run[i].pc = "done"

------------------------------------------------------------------------------
(* Properties of the order of a session's steps, under SpecSession *)

IsPrefix(a, b) == Len(a) <= Len(b) /\ \A n \in 1..Len(a) : a[n] = b[n]

\* The calls of session i but the last
Front(i) == SubSeq(run[i].calls, 1, Len(run[i].calls) - 1)

\* C23: when the critical check passes the run calls, in this order and once
\* each, the before-scenario screenshot, Scenario.execute with its steps, the
\* after-scenario screenshot, the summary and context.close(), and ends
\* Completed; only a failed scenario step cuts the sequence short, a failed
\* capture does not; and Scenario.execute is called only after the health
\* wait has ended and the critical check has read false.
C23_PassingPathInOrder ==
    \A i \in DOMAIN run :
        /\ "execute" \in Calls(i) =>
              /\ run[i].criticalRead = "false"
              /\ run[i].gate \in {"timed-out", "passed", "not-ok"}
        /\ run[i].criticalRead = "false" =>
              \/ IsPrefix(run[i].calls, FullRun)
              \/ /\ run[i].failedAt \in Steps
                 /\ IsPrefix(Front(i), FullRun)
                 /\ run[i].calls[Len(run[i].calls)] = "context.close"
        /\ run[i].exit = "Completed" => (run[i].calls = FullRun /\ run[i].closeCalls = 1)
        /\ (run[i].criticalRead = "false" /\ run[i].pc = "done" /\ run[i].failedAt = "none") =>
              run[i].exit = "Completed"

\* A session whose health wait passed has ended Completed with its context
\* closed, every one of its screenshot captures having failed.
C23_Witness ==
    \E i \in DOMAIN run :
        /\ run[i].gate = "passed"
        /\ run[i].exit = "Completed"
        /\ run[i].pc = "done"
        /\ run[i].context = "closed"
        /\ run[i].calls = FullRun
        /\ run[i].artifacts = {}

\* C24: when the frame is absent, inaccessible or does not reach network
\* idle, monitorIframe leaves the run exactly where a loaded frame leaves it,
\* at the health wait; the session never ends Errored by it, and it reaches
\* the critical check before it ends.
C24_FrameAbsenceIsNotFatal ==
    /\ [][ \A i \in DOMAIN run :
              (run[i].pc = "monitorIframe" /\ run'[i].pc # "monitorIframe") =>
                  [ run'[i] EXCEPT !.iframe = "loaded" ] = monitorIframeSettled(run[i], "loaded") ]_vars
    /\ [](\A i \in DOMAIN run :
            run[i].iframe = "degraded" =>
                /\ "waitForResponse" \in Calls(i)
                /\ run[i].failedAt \in {"none"} \cup Steps
                /\ (run[i].pc = "done" => run[i].criticalRead # "unread"))

\* A session whose frame was not monitored has passed the health wait, read
\* a critical failure and ended Aborted.
C24_Witness ==
    \E i \in DOMAIN run :
        /\ run[i].iframe = "degraded"
        /\ run[i].gate \in {"passed", "not-ok"}
        /\ run[i].exit = "Aborted"
        /\ run[i].pc = "done"

\* C25: the listeners are registered when page.goto is called, so every
\* response the page has emitted, during navigation and before the health
\* wait as well as after, has been handled by the monitor; and the page emits
\* nothing before the context and the page exist.
C25_ListenersBeforeNavigation ==
    \A i \in DOMAIN run :
        /\ "goto" \in Calls(i) => run[i].wired
        /\ Delivered(hist[i]) > 0 => (run[i].context # "null" /\ run[i].page = "page")
        /\ getStats(mon[i]).serverErrors = hist[i].serverResponses
        /\ hasHealthCheckPassed(mon[i]) <=> hist[i].seenHealth200
        /\ (hist[i].responses > 0 /\ mon[i].pendingJson = << >>) =>
              (hasCriticalFailure(mon[i]) \/ mon[i].criticalEndpointResponses # << >>
                 \/ getStats(mon[i]).serverErrors > 0)

\* While page.goto is awaited the monitor has handled a /health 200 and a
\* response of /getStore.
C25_Witness ==
    \E i \in DOMAIN run :
        /\ run[i].pc = "goto"
        /\ hasHealthCheckPassed(mon[i])
        /\ DOMAIN mon[i].criticalEndpointResponses = {"/health", "/getStore"}

\* C26: run() reads hasCriticalFailure() once, when the health wait and its
\* settle delay have ended, and what it reads is the flag at that step;
\* Scenario.execute is called exactly when it read false; and a flag set
\* later neither stops the scenario nor turns the end of the session from
\* Completed to Aborted.
C26_FlagReadOnce ==
    /\ [][ \A i \in DOMAIN run :
              /\ (run[i].criticalRead = "unread" /\ run'[i].criticalRead # "unread") =>
                    /\ run'[i].criticalRead = "true" <=> hasCriticalFailure(mon[i])
                    /\ run'[i].gate \in {"timed-out", "passed", "not-ok"}
              /\ run[i].criticalRead # "unread" => run'[i].criticalRead = run[i].criticalRead ]_vars
    /\ [](\A i \in DOMAIN run :
            /\ "execute" \in Calls(i) => run[i].criticalRead = "false"
            /\ run[i].exit = "Aborted" => run[i].criticalRead = "true"
            /\ run[i].criticalRead = "false" =>
                  /\ run[i].exit # "Aborted"
                  /\ (run[i].pc # "captureScreenshot:before-scenario" => "execute" \in Calls(i))
                  /\ (run[i].pc = "done" /\ run[i].failedAt = "none") => run[i].exit = "Completed")

\* A session that read false at the critical check has ended Completed,
\* though the flag of its monitor was set afterwards.
C26_Witness ==
    \E i \in DOMAIN run :
        /\ run[i].criticalRead = "false"
        /\ hasCriticalFailure(mon[i])
        /\ run[i].exit = "Completed"
        /\ run[i].pc = "done"
        /\ run[i].calls = FullRun

------------------------------------------------------------------------------
(* Properties of the timing of the monitor's updates, under SpecMonitor *)

\* The step delivers `response` to the monitor of session i.
DeliveredTo(i, response) ==
    /\ hist'[i] = RecordResponse(hist[i], response)
    /\ mon'[i] = handleResponse(mon[i], response)

\* The call of checkCriticalEndpoint that a response suspends at its body
\* read
SuspendedCall(response) ==
    [ endpointName |-> FindEndpoint(response.url), url |-> response.url,
      status |-> response.status, body |-> response.body ]

\* C27: when handleResponse returns from a response whose url ends with
\* /health, the /health observation is stored and healthCheckPassed (status
\* 200) or criticalEndpointFailed (any other status) is set, and no body read
\* is pending for it; when it returns from a successful response of another
\* critical endpoint, the flag and the map are as before and the body read
\* is pending, to settle in a later step.
C27_HealthIsEvaluatedAtOnce ==
    [][ \A i \in DOMAIN mon : \A response \in MonitorResponses :
          DeliveredTo(i, response) =>
              /\ IsHealthUrl(response.url) =>
                    /\ mon'[i].pendingJson = mon[i].pendingJson
                    /\ "/health" \in DOMAIN mon'[i].criticalEndpointResponses
                    /\ mon'[i].criticalEndpointResponses["/health"].status = response.status
                    /\ (response.status = 200 => hasHealthCheckPassed(mon'[i]))
                    /\ (response.status # 200 => hasCriticalFailure(mon'[i]))
              /\ (IsOtherCriticalUrl(response.url)
                    /\ response.status >= 200 /\ response.status < 300) =>
                    /\ mon'[i].pendingJson = Append(mon[i].pendingJson, SuspendedCall(response))
                    /\ mon'[i].criticalEndpointFailed = mon[i].criticalEndpointFailed
                    /\ mon'[i].criticalEndpointResponses = mon[i].criticalEndpointResponses ]_vars

====
